---- MODULE Spec2Model ----
(***************************************************************************)
(* Model of contribute.py: main() and build_fast_import_stream().          *)
(*                                                                         *)
(* Strings are modelled by TLA+ strings; Python's None by the value None.  *)
(* A datetime is modelled by the two things the code reads from it: the    *)
(* weekday (0 = Monday .. 6 = Sunday) and, for a commit, the minutes since *)
(* the start of the range.  The fast-import stream is modelled by the list *)
(* of its records (`parts`), each record by the fields of its lines.       *)
(***************************************************************************)
EXTENDS Integers, Sequences, FiniteSets, TLC

VARIABLES
    config,         \* the Config passed to main / build_fast_import_stream
    nowWd,          \* curr_date.weekday()
    pc,             \* position in main / build_fast_import_stream
    status,         \* process exit status: "running", 0 or 1
    diag,           \* the message given to sys.exit ("" when none)
    ops,            \* history: the external calls made so far, with their result
    dirMade,        \* whether a working directory was made (os.mkdir or git clone)
    name,           \* main's local `name`
    email,          \* main's local `email`
    parent_commit,  \* the parent_commit argument of build_fast_import_stream
    parts,          \* builder local `parts`
    mark,           \* builder local `mark`
    parent,         \* builder local `parent`
    count,          \* builder local `count`
    day_offset,     \* builder loop variable `day_offset`
    draws,          \* history: number of randint calls made so far
    dayCounts,      \* history: per day offset, the number of commits emitted for it
    dayDraws,       \* history: per day offset, the number of randint calls it made
    stream          \* the value returned by build_fast_import_stream

vars == <<config, nowWd, pc, status, diag, ops, dirMade, name, email, parent_commit,
          parts, mark, parent, count, day_offset, draws, dayCounts, dayDraws, stream>>

mainVars == <<status, diag, ops, dirMade, name, email>>
buildVars == <<parts, mark, parent, count, day_offset, draws, dayCounts, dayDraws>>

-----------------------------------------------------------------------------
(* Bounds of the model *)

\* days_before and days_after range up to MaxDays, with at most MaxDays days in all
MaxDays == 3
\* max_commits ranges over 0..MaxSmall and the values around the limit of 20
MaxSmall == 3
\* a run is explored when its range holds at most MaxSlots commits
MaxSlots == 21
\* a run of main is explored when its range holds at most MaxMainSlots commits
MaxMainSlots == 2
\* in a run of main, days_before and days_after range up to MaxMainDays each
MaxMainDays == 1

(* Program constants *)

\* the hard upper limit of commits per day
MAX_PER_DAY == 20
\* randint(0, 100): the upper end of the frequency draw
ROLL_MAX == 100
\* minutes in a day: timedelta(day_offset) against timedelta(minutes=...)
DAY_MINUTES == 1440

None == "<None>"
ExternalId == "4b825dc"

\* Python truthiness of an Optional[str]
Truthy(s) == s # None /\ s # ""

Min(a, b) == IF a < b THEN a ELSE b
Max(a, b) == IF a > b THEN a ELSE b

RECURSIVE SumSeq(_)
SumSeq(s) == IF s = <<>> THEN 0 ELSE Head(s) + SumSeq(Tail(s))

-----------------------------------------------------------------------------
(* build_fast_import_stream *)

\* mutant: the upper limit of 20 is not applied
ClampMaxCommits_NoUpper(mc) == Max(1, mc)

\* max(1, min(config.max_commits, 20))
ClampMaxCommits(mc) == Max(1, Min(mc, MAX_PER_DAY))

\* weekday of start + timedelta(d), start = curr_date - timedelta(days_before)
DayWeekday(cfg, wd, d) == (wd - cfg.days_before + d) % 7

\* mutant: only Sunday counts as the weekend
IsWeekend_SundayOnly(wd) == wd > 5

\* day.weekday() >= 5
IsWeekend(wd) == wd >= 5

\* mutant: a draw equal to the frequency skips the day too
FrequencySkips_AtLeast(roll, frequency) == roll >= frequency

\* randint(0, 100) > config.frequency
FrequencySkips(roll, frequency) == roll > frequency

\* the outcomes of randint(0, 100) on which the day is skipped, and the others
SkipRolls(frequency) == {roll \in 0..ROLL_MAX : FrequencySkips(roll, frequency)}
KeepRolls(frequency) == {roll \in 0..ROLL_MAX : ~FrequencySkips(roll, frequency)}

\* mutant: the increment is lost
NextMark_Same(m) == m

\* the value mark takes after `mark += 1`
NextMark(m) == m + 1

\* parent = parent_commit
InitialParent(pcommit) ==
    IF pcommit = None THEN [kind |-> "none"] ELSE [kind |-> "str", id |-> pcommit]

\* mutant: an external identifier is written like a mark
FromLine_AsMark(p) ==
    IF p.kind = "none" THEN [kind |-> "absent"]
    ELSE [kind |-> "mark", ref |-> IF p.kind = "str" THEN p.id ELSE p.n]

\* the optional `from` line of a commit record
FromLine(p) ==
    IF p.kind = "none" THEN [kind |-> "absent"]
    ELSE IF p.kind = "str" THEN [kind |-> "raw", text |-> p.id]
    ELSE [kind |-> "mark", ref |-> p.n]

\* the blob record
BlobRecord(m) == [type |-> "blob", mark |-> m]

\* the commit record
CommitRecord(m, nm, em, time, p, blob_mark) ==
    [type |-> "commit", mark |-> m, committer |-> <<nm, em>>, time |-> time,
     from |-> FromLine(p), M |-> blob_mark]

\* mutant: the running parent is set to the blob's mark
EmitCommit_ParentIsBlob(st, nm, em, d, minute_offset) ==
    LET blob_mark == st.mark
        cmark == NextMark(st.mark)
        commit_time == d * DAY_MINUTES + minute_offset
    IN [parts |-> st.parts \o <<BlobRecord(st.mark),
                                CommitRecord(cmark, nm, em, commit_time, st.parent, blob_mark)>>,
        mark |-> NextMark(cmark),
        parent |-> [kind |-> "mark", n |-> blob_mark],
        count |-> st.count + 1]

\* one iteration of the inner loop, on the builder's locals st
EmitCommit(st, nm, em, d, minute_offset) ==
    LET blob_mark == st.mark
        cmark == NextMark(st.mark)
        commit_time == d * DAY_MINUTES + minute_offset
    IN [parts |-> st.parts \o <<BlobRecord(st.mark),
                                CommitRecord(cmark, nm, em, commit_time, st.parent, blob_mark)>>,
        mark |-> NextMark(cmark),
        parent |-> [kind |-> "mark", n |-> cmark],
        count |-> st.count + 1]

\* for minute_offset in range(commits_today), from minute_offset on
RECURSIVE EmitDay(_, _, _, _, _, _)
EmitDay(st, nm, em, d, minute_offset, commits_today) ==
    IF minute_offset >= commits_today THEN st
    ELSE EmitDay(EmitCommit(st, nm, em, d, minute_offset), nm, em, d,
                 minute_offset + 1, commits_today)

\* the stream is "\n".join(parts): empty exactly when there are no parts
JoinParts(ps) == ps

\* entry of the function: the locals before the loop
BuildEnter ==
    /\ pc = "call_build"
    /\ parts' = <<>>
    /\ mark' = 1
    /\ parent' = InitialParent(parent_commit)
    /\ count' = 0
    /\ day_offset' = 0
    /\ pc' = "build"
    /\ UNCHANGED <<config, nowWd, mainVars, parent_commit, draws, dayCounts, dayDraws, stream>>

\* a skipped day: `continue`
SkipDay(nDraws) ==
    /\ draws' = draws + nDraws
    /\ dayCounts' = Append(dayCounts, 0)
    /\ dayDraws' = Append(dayDraws, nDraws)
    /\ UNCHANGED <<parts, mark, parent, count>>

\* one iteration of the loop over day_offset
BuildDay ==
    /\ pc = "build"
    /\ day_offset < config.days_before + config.days_after
    /\ day_offset' = day_offset + 1
    /\ IF config.no_weekends /\ IsWeekend(DayWeekday(config, nowWd, day_offset))
       THEN SkipDay(0)
       ELSE \/ /\ SkipRolls(config.frequency) # {}
               /\ SkipDay(1)
            \/ /\ KeepRolls(config.frequency) # {}
               /\ \E commits_today \in 1..ClampMaxCommits(config.max_commits) :
                     LET st == EmitDay([parts |-> parts, mark |-> mark,
                                        parent |-> parent, count |-> count],
                                       name, email, day_offset, 0, commits_today)
                     IN /\ parts' = st.parts
                        /\ mark' = st.mark
                        /\ parent' = st.parent
                        /\ count' = st.count
                        /\ draws' = draws + 2
                        /\ dayCounts' = Append(dayCounts, commits_today)
                        /\ dayDraws' = Append(dayDraws, 2)
    /\ UNCHANGED <<config, nowWd, pc, mainVars, parent_commit, stream>>

\* the loop is over: return "\n".join(parts)
BuildReturn ==
    /\ pc = "build"
    /\ day_offset >= config.days_before + config.days_after
    /\ stream' = JoinParts(parts)
    /\ pc' = "built"
    /\ UNCHANGED <<config, nowWd, mainVars, parent_commit, buildVars>>

-----------------------------------------------------------------------------
(* main and its helpers *)

RepositoryUrl == "https://github.com/test/repo.git"

\* mutant: the check of --append against --repository is missing
ValidateConfig_NoAppendCheck(cfg) ==
    IF cfg.days_before < 0 THEN "Error: days_before must not be negative"
    ELSE IF cfg.days_after < 0 THEN "Error: days_after must not be negative"
    ELSE IF ~(0 <= cfg.frequency /\ cfg.frequency <= ROLL_MAX)
         THEN "Error: frequency must be between 0 and 100"
    ELSE IF ~(1 <= cfg.max_commits /\ cfg.max_commits <= MAX_PER_DAY)
         THEN "Error: max_commits must be between 1 and 20"
    ELSE ""

\* validate_config: the message of the first check that fails, "" when none does
ValidateConfig(cfg) ==
    IF cfg.days_before < 0 THEN "Error: days_before must not be negative"
    ELSE IF cfg.days_after < 0 THEN "Error: days_after must not be negative"
    ELSE IF ~(0 <= cfg.frequency /\ cfg.frequency <= ROLL_MAX)
         THEN "Error: frequency must be between 0 and 100"
    ELSE IF ~(1 <= cfg.max_commits /\ cfg.max_commits <= MAX_PER_DAY)
         THEN "Error: max_commits must be between 1 and 20"
    ELSE IF cfg.append /\ ~Truthy(cfg.repository)
         THEN "Error: --append requires --repository"
    ELSE ""

\* sys.exit(message): the process ends with status 1
Exit(message) ==
    /\ pc' = "done"
    /\ status' = 1
    /\ diag' = message

\* mutant: a failed command is ignored
GitExits_Never(ok) == FALSE

\* git() and git_with_input(): check=True turns a failure into sys.exit
GitExits(ok) == ~ok

\* mutant: the sink is invoked whatever the stream
StreamTruthy_Always(s) == TRUE

\* `if stream:`
StreamTruthy(s) == s # <<>>

\* a call of git(...) or git_with_input(...), then on to position next
GitCall(opname, next) ==
    \E ok \in BOOLEAN :
        /\ ops' = Append(ops, [op |-> opname, ok |-> ok])
        /\ IF GitExits(ok) THEN Exit("Git error")
           ELSE pc' = next /\ UNCHANGED <<status, diag>>

\* what git_config can return: the call fails (stdout is empty), or it
\* succeeds with an empty or a non-empty value
GitConfigOutcomes ==
    {[ok |-> FALSE, stdout |-> ""], [ok |-> TRUE, stdout |-> ""],
     [ok |-> TRUE, stdout |-> "global"]}

\* config = parse_args(...); validate_config(config)
Validate ==
    /\ pc = "validate"
    /\ IF ValidateConfig(config) # "" THEN Exit(ValidateConfig(config))
       ELSE pc' = "setup" /\ UNCHANGED <<status, diag>>
    /\ UNCHANGED <<config, nowWd, ops, dirMade, name, email, parent_commit, buildVars, stream>>

\* setup_append_mode: git clone, then chdir
CloneRepository ==
    /\ pc = "setup"
    /\ config.append /\ Truthy(config.repository)
    /\ \E ok \in BOOLEAN :
        /\ ops' = Append(ops, [op |-> "clone", ok |-> ok])
        /\ IF ok THEN pc' = "name" /\ dirMade' = TRUE /\ UNCHANGED <<status, diag>>
           ELSE Exit("Clone failed") /\ UNCHANGED dirMade
    /\ UNCHANGED <<config, nowWd, name, email, parent_commit, buildVars, stream>>

\* create_directory, then chdir
CreateDirectory ==
    /\ pc = "setup"
    /\ ~(config.append /\ Truthy(config.repository))
    /\ \E exists \in BOOLEAN :
        IF exists THEN Exit("Error: Directory already exists") /\ UNCHANGED dirMade
        ELSE pc' = "init" /\ dirMade' = TRUE /\ UNCHANGED <<status, diag>>
    /\ UNCHANGED <<config, nowWd, ops, name, email, parent_commit, buildVars, stream>>

\* git("init", "-b", "main")
GitInit ==
    /\ pc = "init"
    /\ GitCall("init", "name")
    /\ UNCHANGED <<config, nowWd, dirMade, name, email, parent_commit, buildVars, stream>>

\* name = config.user_name or git_config("user.name")
ResolveName ==
    /\ pc = "name"
    /\ IF Truthy(config.user_name)
       THEN name' = config.user_name /\ UNCHANGED ops
       ELSE \E out \in GitConfigOutcomes :
              /\ ops' = Append(ops, [op |-> "config_get_name", ok |-> out.ok])
              /\ name' = out.stdout
    /\ pc' = "email"
    /\ UNCHANGED <<config, nowWd, status, diag, dirMade, email, parent_commit, buildVars, stream>>

\* email = config.user_email or git_config("user.email"), then the two checks
ResolveEmail ==
    /\ pc = "email"
    /\ IF Truthy(config.user_email)
       THEN email' = config.user_email /\ UNCHANGED ops
       ELSE \E out \in GitConfigOutcomes :
              /\ ops' = Append(ops, [op |-> "config_get_email", ok |-> out.ok])
              /\ email' = out.stdout
    /\ IF ~Truthy(name) THEN Exit("Error: git user.name not configured")
       ELSE IF ~Truthy(email') THEN Exit("Error: git user.email not configured")
       ELSE pc' = "set_name" /\ UNCHANGED <<status, diag>>
    /\ UNCHANGED <<config, nowWd, dirMade, name, parent_commit, buildVars, stream>>

\* if config.user_name: git("config", "user.name", ...)
SetName ==
    /\ pc = "set_name"
    /\ IF Truthy(config.user_name) THEN GitCall("config_set_name", "set_email")
       ELSE pc' = "set_email" /\ UNCHANGED <<status, diag, ops>>
    /\ UNCHANGED <<config, nowWd, dirMade, name, email, parent_commit, buildVars, stream>>

\* if config.user_email: git("config", "user.email", ...)
SetEmail ==
    /\ pc = "set_email"
    /\ IF Truthy(config.user_email) THEN GitCall("config_set_email", "head")
       ELSE pc' = "head" /\ UNCHANGED <<status, diag, ops>>
    /\ UNCHANGED <<config, nowWd, dirMade, name, email, parent_commit, buildVars, stream>>

\* parent_commit = get_head_commit() if config.append else None
GetHead ==
    /\ pc = "head"
    /\ IF config.append
       THEN \E ok \in BOOLEAN :
              /\ ops' = Append(ops, [op |-> "rev_parse", ok |-> ok])
              /\ parent_commit' = IF ok THEN ExternalId ELSE None
       ELSE parent_commit' = None /\ UNCHANGED ops
    /\ pc' = "call_build"
    /\ UNCHANGED <<config, nowWd, status, diag, dirMade, name, email, buildVars, stream>>

\* if stream: git_with_input("fast-import", ...)
FastImport ==
    /\ pc = "built"
    /\ IF StreamTruthy(stream) THEN GitCall("fast_import", "checkout")
       ELSE pc' = "remote" /\ UNCHANGED <<status, diag, ops>>
    /\ UNCHANGED <<config, nowWd, dirMade, name, email, parent_commit, buildVars, stream>>

\* git("checkout", "main")
Checkout ==
    /\ pc = "checkout"
    /\ GitCall("checkout", "remote")
    /\ UNCHANGED <<config, nowWd, dirMade, name, email, parent_commit, buildVars, stream>>

\* if config.repository: if not config.append: git("remote", "add", ...)
RemoteAdd ==
    /\ pc = "remote"
    /\ IF ~Truthy(config.repository) THEN pc' = "finish" /\ UNCHANGED <<status, diag, ops>>
       ELSE IF config.append THEN pc' = "branch" /\ UNCHANGED <<status, diag, ops>>
       ELSE GitCall("remote_add", "branch")
    /\ UNCHANGED <<config, nowWd, dirMade, name, email, parent_commit, buildVars, stream>>

\* git("branch", "-M", "main")
BranchRename ==
    /\ pc = "branch"
    /\ GitCall("branch_M", "push")
    /\ UNCHANGED <<config, nowWd, dirMade, name, email, parent_commit, buildVars, stream>>

\* push_to_remote(config.force, config.append)
PushToRemote ==
    /\ pc = "push"
    /\ IF config.force THEN GitCall("push_force", "finish")
       ELSE \E ok \in BOOLEAN :
              /\ ops' = Append(ops, [op |-> "push", ok |-> ok])
              /\ IF ok THEN pc' = "finish" /\ UNCHANGED <<status, diag>>
                 ELSE Exit("Push rejected")
    /\ UNCHANGED <<config, nowWd, dirMade, name, email, parent_commit, buildVars, stream>>

\* the success message; main returns
Finish ==
    /\ pc = "finish"
    /\ pc' = "done"
    /\ status' = 0
    /\ UNCHANGED <<config, nowWd, diag, ops, dirMade, name, email, parent_commit, buildVars, stream>>

-----------------------------------------------------------------------------
(* Inputs *)

BaseConfig ==
    [no_weekends |-> FALSE, max_commits |-> 10, frequency |-> 80,
     days_before |-> 0, days_after |-> 0, repository |-> None,
     user_name |-> None, user_email |-> None, force |-> FALSE, append |-> FALSE]

\* the configuration of test_commits_generation
TestConfig ==
    [BaseConfig EXCEPT !.no_weekends = TRUE, !.max_commits = 3, !.frequency = 100,
                       !.days_before = 7, !.days_after = 0,
                       !.user_name = "TestUser",
                       !.user_email = "test@users.noreply.github.com"]

MaxCommitsInputs == (0..MaxSmall) \cup {MAX_PER_DAY, MAX_PER_DAY + 1}
FrequencyInputs == {0, 50, ROLL_MAX}

\* the number of days of the range: len(range(days_before + days_after))
RangeDays(cfg) == Max(0, cfg.days_before + cfg.days_after)

\* the most commits the range can hold
Slots(cfg) == RangeDays(cfg) * Max(1, Min(cfg.max_commits, MAX_PER_DAY))

\* configurations handed directly to build_fast_import_stream (no validation)
BuildConfigs ==
    { [BaseConfig EXCEPT !.no_weekends = nw, !.max_commits = mc, !.frequency = fr,
                         !.days_before = db, !.days_after = da] :
        nw \in BOOLEAN, mc \in MaxCommitsInputs, fr \in FrequencyInputs,
        db \in 0..MaxDays, da \in 0..MaxDays }

InitLocals ==
    /\ status = "running"
    /\ diag = ""
    /\ ops = <<>>
    /\ dirMade = FALSE
    /\ parts = <<>>
    /\ mark = 0
    /\ parent = [kind |-> "none"]
    /\ count = 0
    /\ day_offset = 0
    /\ draws = 0
    /\ dayCounts = <<>>
    /\ dayDraws = <<>>
    /\ stream = <<>>

InitBuild ==
    /\ config \in {c \in BuildConfigs : RangeDays(c) <= MaxDays /\ Slots(c) <= MaxSlots} \cup {TestConfig}
    /\ nowWd \in 0..6
    /\ pc = "call_build"
    /\ name = "n"
    /\ email = "e"
    /\ parent_commit \in {None, ExternalId}
    /\ InitLocals

NextBuild == BuildEnter \/ BuildDay \/ BuildReturn

SpecBuild == InitBuild /\ [][NextBuild]_vars

\* configurations given to main on the command line
MainConfigs ==
    { [no_weekends |-> nw, max_commits |-> mc, frequency |-> fr,
       days_before |-> db, days_after |-> da, repository |-> repo,
       user_name |-> un, user_email |-> ue, force |-> f, append |-> a] :
        nw \in BOOLEAN, mc \in {0, 1, MAX_PER_DAY, MAX_PER_DAY + 1},
        fr \in {-1, 0, ROLL_MAX, ROLL_MAX + 1},
        db \in (-1)..MaxMainDays, da \in (-1)..MaxMainDays,
        repo \in {None, "", RepositoryUrl},
        un \in {None, "TestUser"}, ue \in {None, "test@users.noreply.github.com"},
        f \in BOOLEAN, a \in BOOLEAN }

Init ==
    /\ config \in {c \in MainConfigs : Slots(c) <= MaxMainSlots}
    /\ nowWd \in 0..6
    /\ pc = "validate"
    /\ name = ""
    /\ email = ""
    /\ parent_commit = None
    /\ InitLocals

Next ==
    \/ Validate \/ CloneRepository \/ CreateDirectory \/ GitInit
    \/ ResolveName \/ ResolveEmail \/ SetName \/ SetEmail \/ GetHead
    \/ BuildEnter \/ BuildDay \/ BuildReturn
    \/ FastImport \/ Checkout \/ RemoteAdd \/ BranchRename \/ PushToRemote \/ Finish

Spec == Init /\ [][Next]_vars

-----------------------------------------------------------------------------
(* Properties of build_fast_import_stream, checked under SpecBuild *)

\* the commit records of a stream, in order
CommitsOf(ps) == SelectSeq(ps, LAMBDA r : r.type = "commit")

\* the builder's output so far: the returned stream once it has returned
Emitted == IF pc = "built" THEN stream ELSE parts

\* the day offsets the loop has dealt with
DaysDone == 1..Len(dayCounts)

\* Saturday or Sunday, for the day at offset d of the range
FallsOnWeekend(d) == ((nowWd - config.days_before + d) % 7) \in {5, 6}

\* the number of commit records of the stream placed on the day at offset d
CommitsOnDay(ps, d) ==
    Cardinality({i \in DOMAIN ps : ps[i].type = "commit" /\ ps[i].time \div DAY_MINUTES = d})

\* each commit but the first names the commit record before it as its parent
ChainedByMarks(cs) ==
    \A i \in 2..Len(cs) : cs[i].from = [kind |-> "mark", ref |-> cs[i - 1].mark]

\* C1: with parent_commit = None, a run that emits N commits produces exactly N
\* commit records, the first without a `from` line and every later one with the
\* `from` line ":<mark of the commit record before it>".
C1_ChainIntegrity ==
    (parent_commit = None /\ pc \in {"build", "built"}) =>
        LET cs == CommitsOf(Emitted)
        IN /\ Len(cs) = count
           /\ Len(cs) = SumSeq(dayCounts)
           /\ Len(cs) > 0 => cs[1].from = [kind |-> "absent"]
           /\ ChainedByMarks(cs)

C1_Witness ==
    /\ parent_commit = None /\ pc = "built"
    /\ Len(CommitsOf(stream)) >= 4
    /\ Cardinality({d \in DaysDone : dayCounts[d] > 0}) >= 2

\* C2: with an external identifier as parent_commit, the first commit's `from`
\* line is that identifier, raw, and every later commit's `from` line is the mark
\* of the commit record before it, never the identifier again.
C2_AppendChaining ==
    (parent_commit # None /\ pc \in {"build", "built"}) =>
        LET cs == CommitsOf(Emitted)
        IN /\ Len(cs) > 0 => cs[1].from = [kind |-> "raw", text |-> parent_commit]
           /\ ChainedByMarks(cs)
           /\ \A i \in 2..Len(cs) : cs[i].from.kind # "raw"

C2_Witness ==
    /\ parent_commit = ExternalId /\ pc = "built"
    /\ Len(CommitsOf(stream)) >= 3
    /\ CommitsOf(stream)[1].from = [kind |-> "raw", text |-> ExternalId]

\* C3: with frequency = 0 every day is skipped whatever the draw: no day gets a
\* commit, no commit is emitted and the stream is empty.
C3_ZeroFrequencySkipsAll ==
    (config.frequency = 0 /\ pc \in {"build", "built"}) =>
        /\ \A d \in DaysDone : dayCounts[d] = 0
        /\ count = 0
        /\ Emitted = <<>>

\* C4: with frequency = 100 no day is skipped by the frequency check: every day
\* dealt with that is not an excluded weekend has at least one commit; and the
\* 7-day range of the test, weekends skipped and at most 3 commits a day, ends
\* with exactly 5 scheduled days and between 5 and 15 commits.
C4_FullFrequency ==
    (config.frequency = 100 /\ pc \in {"build", "built"}) =>
        /\ \A d \in DaysDone :
             ~(config.no_weekends /\ FallsOnWeekend(d - 1)) =>
                 /\ dayCounts[d] >= 1
                 /\ CommitsOnDay(Emitted, d - 1) = dayCounts[d]
        /\ (config = TestConfig /\ pc = "built") =>
             /\ Cardinality({d \in DaysDone : dayCounts[d] > 0}) = 5
             /\ Len(CommitsOf(stream)) \in 5..15
             /\ \A i \in 2..Len(CommitsOf(stream)) :
                  CommitsOf(stream)[i - 1].time < CommitsOf(stream)[i].time

C4_Witness ==
    /\ config = TestConfig /\ pc = "built"
    /\ Len(CommitsOf(stream)) = 15
    /\ Len(dayCounts) = 7

\* C5: with skip_weekends, a Saturday or Sunday of the range gets no commit,
\* whatever the frequency and the draws, and makes no random draw at all.
C5_WeekendExclusion ==
    (config.no_weekends /\ pc \in {"build", "built"}) =>
        \A d \in DaysDone :
            FallsOnWeekend(d - 1) =>
                /\ dayCounts[d] = 0
                /\ dayDraws[d] = 0
                /\ CommitsOnDay(Emitted, d - 1) = 0

C5_Witness ==
    /\ config.no_weekends /\ pc = "built"
    /\ \E d \in DaysDone : FallsOnWeekend(d - 1) /\ dayDraws[d] = 0
    /\ \E d \in DaysDone : ~FallsOnWeekend(d - 1) /\ dayCounts[d] > 0
    /\ draws = SumSeq(dayDraws) /\ draws > 0

\* the conditions of a valid configuration, as the claims state them
ValidRanges(cfg) ==
    /\ cfg.days_before >= 0 /\ cfg.days_after >= 0
    /\ cfg.frequency \in 0..100
    /\ cfg.max_commits \in 1..20

\* C6: whatever the config (max_commits above 20 or below 1 included), no day
\* gets more than 20 commits; with a valid config a scheduled day gets between 1
\* and max_commits commits and the total is at most
\* (days_before + days_after) * max_commits.
C6_CountClamp ==
    (pc \in {"build", "built"}) =>
        /\ \A d \in DaysDone :
             /\ dayCounts[d] <= 20
             /\ CommitsOnDay(Emitted, d - 1) = dayCounts[d]
        /\ ValidRanges(config) =>
             /\ \A d \in DaysDone : dayCounts[d] \in 0..config.max_commits
             /\ count <= (config.days_before + config.days_after) * config.max_commits
             /\ Len(CommitsOf(Emitted)) = count

C6_Witness ==
    /\ config.max_commits > 20 /\ pc = "built"
    /\ \E d \in DaysDone : dayCounts[d] = 20 /\ CommitsOnDay(stream, d - 1) = 20

\* C10: blob and commit marks come from one counter starting at 1: marks are
\* strictly increasing in emission order (so no two records share one), a commit
\* record's mark is one more than the mark of the blob record right before it,
\* and its file-modification line names that blob's mark.
C10_MarkUniqueness ==
    (pc \in {"build", "built"}) =>
        LET ps == Emitted
        IN /\ Len(ps) > 0 => ps[1].mark = 1
           /\ \A i, j \in DOMAIN ps : i < j => ps[i].mark < ps[j].mark
           /\ \A i \in DOMAIN ps :
                ps[i].type = "commit" =>
                    /\ i > 1
                    /\ ps[i - 1].type = "blob"
                    /\ ps[i].mark = ps[i - 1].mark + 1
                    /\ ps[i].M = ps[i - 1].mark
           /\ mark = IF Len(ps) = 0 THEN 1 ELSE ps[Len(ps)].mark + 1

C10_Witness ==
    /\ pc = "built"
    /\ Len(stream) >= 6
    /\ stream[6].type = "commit" /\ stream[6].mark = 6 /\ stream[6].M = 5

-----------------------------------------------------------------------------
(* Properties of main, checked under Spec *)

\* the places of the external calls with a given name
OpsNamed(n) == {i \in DOMAIN ops : ops[i].op = n}

\* build_fast_import_stream has returned to main
BuildReturned ==
    \/ pc \in {"built", "checkout", "remote", "branch", "push", "finish"}
    \/ pc = "done" /\ mark >= 1

\* C7: when no commit is scheduled the stream is empty and main invokes neither
\* fast-import nor the checkout; when at least one is, the stream is not empty,
\* fast-import is invoked exactly once, after the stream is complete, and the
\* checkout comes only right after a successful fast-import.
C7_EmptyStreamSkipsSink ==
    /\ (BuildReturned /\ count = 0) => stream = <<>>
    /\ count = 0 => OpsNamed("fast_import") = {} /\ OpsNamed("checkout") = {}
    /\ (BuildReturned /\ count > 0) =>
         /\ stream # <<>>
         /\ pc # "built" => Cardinality(OpsNamed("fast_import")) = 1
    /\ Cardinality(OpsNamed("fast_import")) <= 1
    /\ OpsNamed("fast_import") # {} =>
         /\ BuildReturned
         /\ Len(dayCounts) = RangeDays(config)
         /\ stream = parts
    /\ \A i \in OpsNamed("checkout") :
         i > 1 /\ ops[i - 1] = [op |-> "fast_import", ok |-> TRUE]

C7_Witness ==
    /\ pc = "done" /\ status = 0
    /\ RangeDays(config) > 0 /\ Len(dayCounts) = RangeDays(config)
    /\ count = 0 /\ stream = <<>>
    /\ OpsNamed("fast_import") = {} /\ OpsNamed("checkout") = {}
    /\ OpsNamed("push") # {}

\* C8 as stated: every external call that fails is the last one of the run (no
\* further external call follows it), and a run that ends after a failed call
\* ends with a non-zero status.
C8_EveryFailureFatal ==
    /\ \A i \in DOMAIN ops : ~ops[i].ok => i = Len(ops)
    /\ (pc = "done" /\ \E i \in DOMAIN ops : ~ops[i].ok) => status = 1

\* C8 amended: a failed init, clone, config write, fast-import, checkout, remote
\* add, branch rename or push is the last external call of the run, which ends
\* with status 1; a failed identity read ends the run with status 1 too, but a
\* failed read of user.name may be followed by the read of user.email; a failed
\* head resolution is not fatal, the run goes on with no parent; no call is
\* made twice.
C8_FailureFatalExceptReads ==
    /\ \A i \in DOMAIN ops :
         ~ops[i].ok =>
            IF ops[i].op = "rev_parse" THEN parent_commit = None
            ELSE IF ops[i].op = "config_get_name"
            THEN /\ \A j \in (i + 1)..Len(ops) : j = i + 1 /\ ops[j].op = "config_get_email"
                 /\ pc # "email" => pc = "done" /\ status = 1
            ELSE i = Len(ops) /\ pc = "done" /\ status = 1
    /\ \A i, j \in DOMAIN ops : i < j => ops[i].op # ops[j].op

C8_Witness ==
    /\ pc = "done" /\ status = 1
    /\ Len(ops) >= 2
    /\ ops[Len(ops)] = [op |-> "fast_import", ok |-> FALSE]
    /\ \A i \in 1..(Len(ops) - 1) : ops[i].ok

\* the configuration errors, as the claim lists them
ConfigurationError(cfg) ==
    \/ cfg.days_before < 0
    \/ cfg.days_after < 0
    \/ cfg.frequency < 0 \/ cfg.frequency > 100
    \/ cfg.max_commits < 1 \/ cfg.max_commits > 20
    \/ cfg.append /\ cfg.repository \in {None, ""}

ValidationMessages ==
    {"Error: days_before must not be negative",
     "Error: days_after must not be negative",
     "Error: frequency must be between 0 and 100",
     "Error: max_commits must be between 1 and 20",
     "Error: --append requires --repository"}

\* C9: a config with a configuration error ends the run in validate_config with
\* an error, before any directory is made, any external command is run or any
\* stream is built; a config with none passes validation.
C9_ConfigErrorsCaughtFirst ==
    pc # "validate" =>
        IF ConfigurationError(config)
        THEN /\ pc = "done" /\ status = 1
             /\ diag \in ValidationMessages
             /\ ops = <<>> /\ ~dirMade
             /\ mark = 0 /\ parts = <<>> /\ stream = <<>> /\ draws = 0
        ELSE diag \notin ValidationMessages

C9_Witness ==
    /\ pc = "done" /\ status = 1
    /\ config.append /\ config.repository = None
    /\ config.days_before = 1 /\ config.max_commits = 1 /\ config.frequency = 100
    /\ diag = "Error: --append requires --repository"
    /\ ops = <<>> /\ ~dirMade

====
